---- MODULE Spec2Model ----
(***************************************************************************)
(* Byte-level BPE tokenizer: tiztoken/base.py (get_stats, merge, the       *)
(* Tokenizer base class with _build_vocab, save, load) and                 *)
(* tiztoken/basic.py (BasicTokenizer.train, decode, encode).               *)
(*                                                                         *)
(* Strings are sequences of Unicode code points, byte strings sequences of *)
(* bytes.  A Python dict is insertion ordered: the merges, the special     *)
(* tokens and the pair statistics are sequences of <<key, value>> entries  *)
(* in insertion order.  The vocabulary is only read by key, it is a        *)
(* function from ids to byte strings.                                      *)
(***************************************************************************)
EXTENDS Integers, Sequences, FiniteSets, TLC

VARIABLES merges, pattern, special_tokens, vocab, disk, result, last, enc, mc

vars == <<merges, pattern, special_tokens, vocab, disk, result, last, enc, mc>>

\* the four fields of a Tokenizer object
tok == <<merges, pattern, special_tokens, vocab>>

(***************************************************************************)
(* Bounds of the model.                                                    *)
(***************************************************************************)
\* longest text (in characters) passed to train and encode
MaxLen == 2
\* largest number of merges a train call asks for (vocab_size - TOKENS)
MaxMerges == 2
\* longest id sequence handed to a direct call of merge
MaxSeq == 4
\* ids 1..MaxVal appear in the sequences handed to a direct call of merge
MaxVal == 2

(***************************************************************************)
(* Program constants.                                                      *)
(***************************************************************************)
TOKENS == 256
\* "tiztoken v1"
VERSION == <<116, 105, 122, 116, 111, 107, 101, 110, 32, 118, 49>>
\* "\n" and " " as written by save
NL == 10
SP == 32
\* U+FFFD, what errors="replace" decodes an ill-formed byte sequence to
REPLACEMENT == 65533

(***************************************************************************)
(* Insertion-ordered dict: a sequence of <<key, value>> entries.           *)
(***************************************************************************)
DictHas(d, k) == \E n \in 1..Len(d) : d[n][1] = k

DictGet(d, k, default) ==
    IF DictHas(d, k)
    THEN d[CHOOSE n \in 1..Len(d) : d[n][1] = k][2]
    ELSE default

\* d[k] = v: an existing key keeps its position, a new key goes last
DictSet(d, k, v) ==
    IF DictHas(d, k)
    THEN [n \in 1..Len(d) |-> IF d[n][1] = k THEN <<k, v>> ELSE d[n]]
    ELSE Append(d, <<k, v>>)

\* vocab[k] = v
VocabSet(voc, k, v) == (k :> v) @@ voc

(***************************************************************************)
(* get_stats(ids, counts): the counts of consecutive pairs, keyed in order *)
(* of first occurrence.                                                    *)
(***************************************************************************)
RECURSIVE StatsFrom(_, _, _)

\* counts[pair] = counts.get(pair, 0) + 1, and on to the next pair; the new
\* dict is bound by a quantifier, which has it evaluated once
StatsPair(ids, i, counts, pair) ==
    CHOOSE stats \in {StatsFrom(ids, i + 1, c) :
                         c \in {DictSet(counts, pair, DictGet(counts, pair, 0) + 1)}} : TRUE

StatsFrom(ids, i, counts) ==
    IF i >= Len(ids)
    THEN counts
    ELSE StatsPair(ids, i, counts, <<ids[i], ids[i + 1]>>)

get_stats(ids, counts) == StatsFrom(ids, 1, counts)

(***************************************************************************)
(* merge(ids, pair, idx): the while loop over i (1-based here).            *)
(***************************************************************************)
\* a variant that steps over one element, not two, after a match
RECURSIVE MergeOverlap(_, _, _, _, _)
MergeOverlap(ids, pair, idx, i, merged_ids) ==
    IF i > Len(ids)
    THEN merged_ids
    ELSE IF ids[i] = pair[1] /\ i < Len(ids) /\ ids[i + 1] = pair[2]
         THEN MergeOverlap(ids, pair, idx, i + 1, Append(merged_ids, idx))
         ELSE MergeOverlap(ids, pair, idx, i + 1, Append(merged_ids, ids[i]))

RECURSIVE MergeFrom(_, _, _, _, _)
MergeFrom(ids, pair, idx, i, merged_ids) ==
    IF i > Len(ids)
    THEN merged_ids
    ELSE IF ids[i] = pair[1] /\ i < Len(ids) /\ ids[i + 1] = pair[2]
         THEN MergeFrom(ids, pair, idx, i + 2, Append(merged_ids, idx))
         ELSE MergeFrom(ids, pair, idx, i + 1, Append(merged_ids, ids[i]))

merge(ids, pair, idx) == MergeFrom(ids, pair, idx, 1, <<>>)

(***************************************************************************)
(* str.encode("utf-8") and bytes.decode("utf-8", errors="replace").        *)
(***************************************************************************)
Utf8Char(c) ==
    IF c < 128 THEN <<c>>
    ELSE IF c < 2048 THEN <<192 + (c \div 64), 128 + (c % 64)>>
    ELSE IF c < 65536
         THEN <<224 + (c \div 4096), 128 + ((c \div 64) % 64), 128 + (c % 64)>>
         ELSE <<240 + (c \div 262144), 128 + ((c \div 4096) % 64),
                128 + ((c \div 64) % 64), 128 + (c % 64)>>

RECURSIVE Utf8Encode(_)
Utf8Encode(s) ==
    IF s = <<>> THEN <<>> ELSE Utf8Char(Head(s)) \o Utf8Encode(Tail(s))

IsCont(b) == b >= 128 /\ b <= 191

\* the range the second byte of a sequence led by b must lie in
SecondOk(b, b2) ==
    IF b = 224 THEN b2 >= 160 /\ b2 <= 191
    ELSE IF b = 237 THEN b2 >= 128 /\ b2 <= 159
    ELSE IF b = 240 THEN b2 >= 144 /\ b2 <= 191
    ELSE IF b = 244 THEN b2 >= 128 /\ b2 <= 143
    ELSE IsCont(b2)

\* the number of bytes of the sequence led by b, 0 for an invalid lead
SeqLen(b) ==
    IF b < 128 THEN 1
    ELSE IF b >= 194 /\ b <= 223 THEN 2
    ELSE IF b >= 224 /\ b <= 239 THEN 3
    ELSE IF b >= 240 /\ b <= 244 THEN 4
    ELSE 0

\* how many bytes from position i on form a valid prefix of a sequence
RECURSIVE ValidPrefix(_, _, _, _)
ValidPrefix(bs, i, n, k) ==
    IF k >= n \/ i + k > Len(bs) THEN k
    ELSE IF (k = 1 /\ SecondOk(bs[i], bs[i + 1])) \/ (k > 1 /\ IsCont(bs[i + k]))
         THEN ValidPrefix(bs, i, n, k + 1)
         ELSE k

CodePoint(bs, i, n) ==
    IF n = 1 THEN bs[i]
    ELSE IF n = 2 THEN (bs[i] - 192) * 64 + (bs[i + 1] - 128)
    ELSE IF n = 3
         THEN (bs[i] - 224) * 4096 + (bs[i + 1] - 128) * 64 + (bs[i + 2] - 128)
         ELSE (bs[i] - 240) * 262144 + (bs[i + 1] - 128) * 4096
              + (bs[i + 2] - 128) * 64 + (bs[i + 3] - 128)

RECURSIVE Utf8DecodeFrom(_, _, _)
Utf8DecodeFrom(bs, i, out) ==
    IF i > Len(bs) THEN out
    ELSE LET n == SeqLen(bs[i])
         IN  IF n = 0
             THEN Utf8DecodeFrom(bs, i + 1, Append(out, REPLACEMENT))
             ELSE LET k == ValidPrefix(bs, i, n, 1)
                  IN  IF k = n
                      THEN Utf8DecodeFrom(bs, i + n, Append(out, CodePoint(bs, i, n)))
                      ELSE Utf8DecodeFrom(bs, i + k, Append(out, REPLACEMENT))

Utf8Decode(bs) == Utf8DecodeFrom(bs, 1, <<>>)

(***************************************************************************)
(* Tokenizer._build_vocab.                                                 *)
(***************************************************************************)
ByteVocab == [idx \in 0..(TOKENS - 1) |-> <<idx>>]

RECURSIVE VocabMerges(_, _, _)
VocabMerges(mrg, n, voc) ==
    IF n > Len(mrg) THEN [err |-> FALSE, vocab |-> voc]
    ELSE LET p0 == mrg[n][1][1]
             p1 == mrg[n][1][2]
         IN  IF p0 \notin DOMAIN voc \/ p1 \notin DOMAIN voc
             THEN [err |-> TRUE, vocab |-> voc]
             ELSE VocabMerges(mrg, n + 1, VocabSet(voc, mrg[n][2], voc[p0] \o voc[p1]))

RECURSIVE VocabSpecial(_, _, _)
VocabSpecial(sp, n, voc) ==
    IF n > Len(sp) THEN voc
    ELSE VocabSpecial(sp, n + 1, VocabSet(voc, sp[n][2], Utf8Encode(sp[n][1])))

\* the loop over the special tokens, when the loop over the merges ended
VocabEnd(m, sp) ==
    IF m.err THEN m ELSE [err |-> FALSE, vocab |-> VocabSpecial(sp, 1, m.vocab)]

\* err: vocab[p0] or vocab[p1] raised KeyError
build_vocab(mrg, sp) == VocabEnd(VocabMerges(mrg, 1, ByteVocab), sp)

(***************************************************************************)
(* BasicTokenizer.train: the locals at the end of the call, or the         *)
(* exception that ends it.                                                 *)
(***************************************************************************)
\* max(stats, key=stats.get): the first key with the largest count
MaxKey(stats) ==
    LET n == CHOOSE n \in 1..Len(stats) :
                 /\ \A m \in 1..Len(stats) : stats[m][2] <= stats[n][2]
                 /\ \A m \in 1..(n - 1) : stats[m][2] < stats[n][2]
    IN  stats[n][1]

RECURSIVE TrainLoop(_, _, _, _, _)

\* a variant that joins the two byte strings of the new token the wrong way round
TrainMergeSwapped(i, num_merges, ids, mrg, voc, pair, idx) ==
    TrainLoop(i + 1, num_merges, merge(ids, pair, idx), DictSet(mrg, pair, idx),
              VocabSet(voc, idx, voc[pair[2]] \o voc[pair[1]]))

\* lines 41-46: mint idx, merge, record the rule and the new token
TrainMerge(i, num_merges, ids, mrg, voc, pair, idx) ==
    TrainLoop(i + 1, num_merges, merge(ids, pair, idx), DictSet(mrg, pair, idx),
              VocabSet(voc, idx, voc[pair[1]] \o voc[pair[2]]))

\* a variant that mints TOKENS + i + 1, leaving id 256 out
TrainPairSkip(i, num_merges, ids, mrg, voc, stats) ==
    IF stats = <<>>
    THEN [status |-> "ValueError", ids |-> ids, merges |-> mrg, vocab |-> voc,
          passes |-> i]
    ELSE TrainMerge(i, num_merges, ids, mrg, voc, MaxKey(stats), TOKENS + i + 1)

\* line 39: max() of an empty dict raises ValueError
TrainPair(i, num_merges, ids, mrg, voc, stats) ==
    IF stats = <<>>
    THEN [status |-> "ValueError", ids |-> ids, merges |-> mrg, vocab |-> voc,
          passes |-> i]
    ELSE TrainMerge(i, num_merges, ids, mrg, voc, MaxKey(stats), TOKENS + i)

\* for i in range(num_merges)
TrainLoop(i, num_merges, ids, mrg, voc) ==
    IF i >= num_merges
    THEN [status |-> "ok", ids |-> ids, merges |-> mrg, vocab |-> voc, passes |-> i]
    ELSE TrainPair(i, num_merges, ids, mrg, voc, get_stats(ids, <<>>))

train(text, vocab_size) ==
    IF ~(vocab_size >= TOKENS)
    THEN [status |-> "AssertionError", ids |-> <<>>, merges |-> <<>>, vocab |-> ByteVocab,
          passes |-> 0]
    ELSE TrainLoop(0, vocab_size - TOKENS, Utf8Encode(text), <<>>, ByteVocab)

(***************************************************************************)
(* BasicTokenizer.encode, one iteration of the while loop, and             *)
(* BasicTokenizer.decode.                                                  *)
(***************************************************************************)
Inf == -1

MergeRank(mrg, p) == DictGet(mrg, p, Inf)

\* a variant that orders the default below every rule id, as a default of -1 would
LessPlain(a, b) == a < b

Less(a, b) == a # Inf /\ (b = Inf \/ a < b)

\* a variant that takes the first pair of stats, whatever its rank
MinKeyFirst(stats, mrg) == stats[1][1]

\* min(stats, key=lambda p: self.merges.get(p, float("inf")))
MinKey(stats, mrg) ==
    LET n == CHOOSE n \in 1..Len(stats) :
                 /\ \A m \in 1..Len(stats) :
                        ~Less(MergeRank(mrg, stats[m][1]), MergeRank(mrg, stats[n][1]))
                 /\ \A m \in 1..(n - 1) :
                        Less(MergeRank(mrg, stats[n][1]), MergeRank(mrg, stats[m][1]))
    IN  stats[n][1]

\* a variant that drops the result of merge and keeps ids as they were
EncodePairKeep(mrg, ids, pair) ==
    IF ~DictHas(mrg, pair)
    THEN [ids |-> ids, more |-> FALSE]
    ELSE [ids |-> ids, more |-> TRUE]

\* lines 80-86, with the pair chosen
EncodePair(mrg, ids, pair) ==
    IF ~DictHas(mrg, pair)
    THEN [ids |-> ids, more |-> FALSE]
    ELSE [ids |-> merge(ids, pair, DictGet(mrg, pair, Inf)), more |-> TRUE]

\* the loop test and the body: the next ids, and whether the loop goes on
EncodeIter(mrg, ids) ==
    IF ~(Len(ids) >= 2)
    THEN [ids |-> ids, more |-> FALSE]
    ELSE CHOOSE it \in {EncodePair(mrg, ids, MinKey(stats, mrg)) :
                          stats \in {get_stats(ids, <<>>)}} : TRUE

RECURSIVE VocabBytes(_, _)
VocabBytes(voc, ids) ==
    IF ids = <<>> THEN <<>> ELSE voc[Head(ids)] \o VocabBytes(voc, Tail(ids))

\* err: self.vocab[idx] raised KeyError
decode(voc, ids) ==
    IF \E n \in 1..Len(ids) : ids[n] \notin DOMAIN voc
    THEN [err |-> TRUE, text |-> <<>>]
    ELSE [err |-> FALSE, text |-> Utf8Decode(VocabBytes(voc, ids))]

(***************************************************************************)
(* The model file: str(), int(), str.strip(), str.split() and the lines    *)
(* of a text file.                                                         *)
(***************************************************************************)
RECURSIVE Digits(_)
Digits(n) == IF n < 10 THEN <<48 + n>> ELSE Append(Digits(n \div 10), 48 + (n % 10))

\* f"{n}"
str(n) == IF n < 0 THEN <<45>> \o Digits(-n) ELSE Digits(n)

\* str.isspace of one character
IsSpace(c) ==
    \/ c \in {9, 10, 11, 12, 13, 28, 29, 30, 31, 32, 133, 160, 5760}
    \/ (c >= 8192 /\ c <= 8202)
    \/ c \in {8232, 8233, 8239, 8287, 12288}

RECURSIVE LStrip(_)
LStrip(s) == IF s # <<>> /\ IsSpace(Head(s)) THEN LStrip(Tail(s)) ELSE s

RECURSIVE RStrip(_)
RStrip(s) ==
    IF s # <<>> /\ IsSpace(s[Len(s)]) THEN RStrip(SubSeq(s, 1, Len(s) - 1)) ELSE s

strip(s) == RStrip(LStrip(s))

\* s.split(): the maximal runs of characters that are not whitespace
RECURSIVE SplitFrom(_, _, _, _)
SplitFrom(s, i, word, words) ==
    IF i > Len(s)
    THEN IF word = <<>> THEN words ELSE Append(words, word)
    ELSE IF IsSpace(s[i])
         THEN SplitFrom(s, i + 1, <<>>, IF word = <<>> THEN words ELSE Append(words, word))
         ELSE SplitFrom(s, i + 1, Append(word, s[i]), words)

split(s) == SplitFrom(s, 1, <<>>, <<>>)

IsDigit(c) == c >= 48 /\ c <= 57

RECURSIVE DigitsValue(_, _)
DigitsValue(s, acc) ==
    IF s = <<>> THEN acc ELSE DigitsValue(Tail(s), 10 * acc + (Head(s) - 48))

IntDigits(negative, d) ==
    IF d = <<>> \/ \E n \in 1..Len(d) : ~IsDigit(d[n])
    THEN [err |-> TRUE, val |-> 0]
    ELSE [err |-> FALSE, val |-> IF negative THEN 0 - DigitsValue(d, 0) ELSE DigitsValue(d, 0)]

IntSigned(t) ==
    IF t # <<>> /\ Head(t) \in {43, 45}
    THEN IntDigits(Head(t) = 45, Tail(t))
    ELSE IntDigits(FALSE, t)

\* int(s) of a string of ASCII characters; err: ValueError
int(s) == IntSigned(strip(s))

\* the lines of a file, each with the newline that ends it
RECURSIVE LinesFrom(_, _, _, _)
LinesFrom(content, i, line, lines) ==
    IF i > Len(content)
    THEN IF line = <<>> THEN lines ELSE Append(lines, line)
    ELSE IF content[i] = NL
         THEN LinesFrom(content, i + 1, <<>>, Append(lines, Append(line, NL)))
         ELSE LinesFrom(content, i + 1, Append(line, content[i]), lines)

Lines(content) == LinesFrom(content, 1, <<>>, <<>>)

\* f.readline() for the k-th time: "" at the end of the file
ReadLine(lines, k) == IF k <= Len(lines) THEN lines[k] ELSE <<>>

(***************************************************************************)
(* Tokenizer.save: the text written to file_name + ".model".  (The .vocab  *)
(* rendering written after it is for reading only and no operation reads   *)
(* it back.)                                                               *)
(***************************************************************************)
RECURSIVE SpecialLines(_, _)
SpecialLines(sp, n) ==
    IF n > Len(sp) THEN <<>>
    ELSE sp[n][1] \o <<SP>> \o str(sp[n][2]) \o <<NL>> \o SpecialLines(sp, n + 1)

RECURSIVE MergeLines(_, _)
MergeLines(mrg, n) ==
    IF n > Len(mrg) THEN <<>>
    ELSE str(mrg[n][1][1]) \o <<SP>> \o str(mrg[n][1][2]) \o <<NL>> \o MergeLines(mrg, n + 1)

ModelFile(mrg, pat, sp) ==
    VERSION \o <<NL>> \o pat \o <<NL>> \o str(Len(sp)) \o <<NL>>
        \o SpecialLines(sp, 1) \o MergeLines(mrg, 1)

(***************************************************************************)
(* Tokenizer.load: the fields of the tokenizer after the call, and how the *)
(* call ended.                                                             *)
(***************************************************************************)
RECURSIVE ReadSpecial(_, _, _, _)

\* line 168
SpecialEntry(lines, k, left, sp, special_token, special_token_idx) ==
    IF special_token_idx.err THEN [err |-> TRUE, dict |-> sp]
    ELSE ReadSpecial(lines, k + 1, left - 1, DictSet(sp, special_token, special_token_idx.val))

\* line 167: the line unpacks into two fields or raises ValueError
SpecialLine(lines, k, left, sp, parts) ==
    IF Len(parts) # 2 THEN [err |-> TRUE, dict |-> sp]
    ELSE SpecialEntry(lines, k, left, sp, parts[1], int(parts[2]))

\* the for loop over range(num_special_tokens), reading from line k
ReadSpecial(lines, k, left, sp) ==
    IF left <= 0 THEN [err |-> FALSE, dict |-> sp]
    ELSE SpecialLine(lines, k, left, sp, split(strip(ReadLine(lines, k))))

RECURSIVE ReadMerges(_, _, _, _)

\* lines 173-174
MergeEntry(lines, k, idx, mrg, idx1, idx2) ==
    IF idx1.err \/ idx2.err THEN [err |-> TRUE, dict |-> mrg]
    ELSE ReadMerges(lines, k + 1, idx + 1, DictSet(mrg, <<idx1.val, idx2.val>>, idx))

\* line 172: the line unpacks into two ints or raises ValueError
MergeLine(lines, k, idx, mrg, parts) ==
    IF Len(parts) # 2 THEN [err |-> TRUE, dict |-> mrg]
    ELSE MergeEntry(lines, k, idx, mrg, int(parts[1]), int(parts[2]))

\* the for loop over the remaining lines, from line k
ReadMerges(lines, k, idx, mrg) ==
    IF k > Len(lines) THEN [err |-> FALSE, dict |-> mrg]
    ELSE MergeLine(lines, k, idx, mrg, split(lines[k]))

\* how the call ended and what it had read: lines 161 and 178-180 assign
\* pattern, merges, special_tokens and vocab only when control reaches them
Ended(status, pat, sp, mrg, voc) ==
    [status |-> status, pattern |-> pat, special_tokens |-> sp, merges |-> mrg,
     vocab |-> voc]

\* line 180
LoadVocab(pat, sp, mrg, voc) ==
    IF voc.err
    THEN Ended("KeyError", pat, sp, mrg, ByteVocab)
    ELSE Ended("ok", pat, sp, mrg, voc.vocab)

\* lines 171-179
LoadMerges(pat, sp, mrg) ==
    IF sp.err \/ mrg.err
    THEN Ended("ValueError", pat, <<>>, <<>>, ByteVocab)
    ELSE LoadVocab(pat, sp.dict, mrg.dict, build_vocab(mrg.dict, sp.dict))

\* lines 164-168
LoadSpecial(lines, pat, num) ==
    IF num.err
    THEN Ended("ValueError", pat, <<>>, <<>>, ByteVocab)
    ELSE LoadMerges(pat, ReadSpecial(lines, 4, num.val, <<>>),
                    ReadMerges(lines, 4 + (IF num.val > 0 THEN num.val ELSE 0), TOKENS, <<>>))

\* lines 150-161
LoadLines(suffix, lines) ==
    IF ~suffix \/ strip(ReadLine(lines, 1)) # VERSION
    THEN Ended("AssertionError", <<>>, <<>>, <<>>, ByteVocab)
    ELSE LoadSpecial(lines, strip(ReadLine(lines, 2)), int(strip(ReadLine(lines, 3))))

load(suffix, content) == LoadLines(suffix, Lines(content))

(***************************************************************************)
(* The inputs.                                                             *)
(***************************************************************************)
\* "a" and U+00E9, whose UTF-8 encoding is the two bytes C3 A9
Alphabet == {97, 233}

Texts == UNION {[1..n -> Alphabet] : n \in 0..MaxLen}

VocabSizes == (TOKENS - 1)..(TOKENS + MaxMerges)

Line(s) == s \o <<NL>>

\* pattern " p ", the special token U+00E9 with id 256, the merge (97, 97)
FileSpecial ==
    Line(VERSION) \o Line(<<32, 112, 32>>) \o Line(<<49>>)
        \o Line(<<233, 32, 50, 53, 54>>) \o Line(<<57, 55, 32, 57, 55>>)

\* the merge line "97 97" twice
FileDuplicate ==
    Line(VERSION) \o Line(<<>>) \o Line(<<48>>)
        \o Line(<<57, 55, 32, 57, 55>>) \o Line(<<57, 55, 32, 57, 55>>)

\* "tiztoken v2"
FileVersion ==
    Line(<<116, 105, 122, 116, 111, 107, 101, 110, 32, 118, 50>>) \o Line(<<112>>)
        \o Line(<<48>>)

\* pattern "p", the count "x"
FileCount == Line(VERSION) \o Line(<<112>>) \o Line(<<120>>)

\* pattern "p", a special-token line of one field
FileToken == Line(VERSION) \o Line(<<112>>) \o Line(<<49>>) \o Line(<<233>>)

\* a merge line of one field
FileMerge ==
    Line(VERSION) \o Line(<<>>) \o Line(<<48>>) \o Line(<<57, 55, 32, 57, 55>>)
        \o Line(<<57, 55>>)

\* the merge line "300 97": no token 300
FileUnknown ==
    Line(VERSION) \o Line(<<>>) \o Line(<<48>>) \o Line(<<51, 48, 48, 32, 57, 55>>)

\* suffix: the file name ends with ".model"
InputFiles ==
    {[suffix |-> TRUE, content |-> c] :
        c \in {FileSpecial, FileDuplicate, FileVersion, FileCount, FileToken,
               FileMerge, FileUnknown}}
    \cup {[suffix |-> FALSE, content |-> FileSpecial]}

MergeSeqs == UNION {[1..n -> 1..MaxVal] : n \in 0..MaxSeq}

(***************************************************************************)
(* The state machine: one tokenizer object and the program that calls it.  *)
(* result is how the call just made ended, until the caller goes on.  last *)
(* is the last call that assigned a field of the tokenizer: for a train    *)
(* that returned, its text and its local ids at the end.                   *)
(***************************************************************************)
NoCall == [op |-> "none", status |-> "ok", vocab_size |-> 0, passes |-> 0]

Fresh == [op |-> "init", text |-> <<>>, ids |-> <<>>]

\* the call of encode under way: its text, its local ids, the passes of the
\* loop body made, and what decode made of the ids it returned
Idle ==
    [pc |-> "idle", text |-> <<>>, ids |-> <<>>, steps |-> 0,
     out |-> [err |-> FALSE, text |-> <<>>]]

\* Tokenizer.__init__, nothing saved yet, no call made
Init ==
    /\ merges = <<>>
    /\ pattern = <<>>
    /\ special_tokens = <<>>
    /\ vocab = build_vocab(<<>>, <<>>).vocab
    /\ disk = [exists |-> FALSE, content |-> <<>>]
    /\ result = NoCall
    /\ last = Fresh
    /\ enc = Idle
    /\ mc = [pc |-> "done", ids |-> <<>>, pair |-> <<0, 0>>, idx |-> 0, out |-> <<>>]

\* the caller is between two calls
Ready == result.op = "none" /\ enc.pc = "idle"

\* lines 54-56 of train, reached when nothing was raised
TrainEnd(text, vocab_size, r) ==
    /\ IF r.status = "ok"
       THEN /\ merges' = r.merges
            /\ vocab' = r.vocab
            /\ last' = [op |-> "train", text |-> text, ids |-> r.ids]
       ELSE UNCHANGED <<merges, vocab, last>>
    /\ result' = [op |-> "train", status |-> r.status, vocab_size |-> vocab_size,
                  passes |-> r.passes]

Train(text, vocab_size) ==
    /\ Ready
    /\ TrainEnd(text, vocab_size, train(text, vocab_size))
    /\ UNCHANGED <<pattern, special_tokens, disk, enc, mc>>

Save ==
    /\ Ready
    /\ disk' = [exists |-> TRUE, content |-> ModelFile(merges, pattern, special_tokens)]
    /\ UNCHANGED <<merges, pattern, special_tokens, vocab, result, last, enc, mc>>

\* the assignments of load that were reached
LoadEnd(r) ==
    /\ pattern' = IF r.status = "AssertionError" THEN pattern ELSE r.pattern
    /\ merges' = IF r.status \in {"KeyError", "ok"} THEN r.merges ELSE merges
    /\ special_tokens' = IF r.status \in {"KeyError", "ok"}
                         THEN r.special_tokens ELSE special_tokens
    /\ vocab' = IF r.status = "ok" THEN r.vocab ELSE vocab
    /\ last' = IF r.status = "AssertionError" THEN last ELSE [Fresh EXCEPT !.op = "load"]
    /\ result' = [NoCall EXCEPT !.op = "load", !.status = r.status]

LoadFile(f) ==
    /\ Ready
    /\ LoadEnd(load(f.suffix, f.content))
    /\ UNCHANGED <<disk, enc, mc>>

\* load of a file given to the program
Load == \E f \in InputFiles : LoadFile(f)

\* load of the file save wrote
Reload == disk.exists /\ LoadFile([suffix |-> TRUE, content |-> disk.content])

\* the caller takes what train or load returned or raised, and goes on
Resume ==
    /\ result.op # "none"
    /\ result' = NoCall
    /\ UNCHANGED <<merges, pattern, special_tokens, vocab, disk, last, enc, mc>>

\* encode(text) up to the while loop
EncodeCall(text) ==
    /\ Ready
    /\ enc' = [Idle EXCEPT !.pc = "loop", !.text = text, !.ids = Utf8Encode(text)]
    /\ UNCHANGED <<merges, pattern, special_tokens, vocab, disk, result, last, mc>>

EncodeNext(it) ==
    enc' = [enc EXCEPT !.ids = it.ids,
                       !.steps = IF it.more THEN @ + 1 ELSE @,
                       !.pc = IF it.more THEN "loop" ELSE "return"]

\* one test of the while loop and, when it holds, one pass of its body
EncodeLoop ==
    /\ enc.pc = "loop"
    /\ \E it \in {EncodeIter(merges, enc.ids)} : EncodeNext(it)
    /\ UNCHANGED <<merges, pattern, special_tokens, vocab, disk, result, last, mc>>

\* decode(ids) of the ids encode returned
Decode ==
    /\ enc.pc = "return"
    /\ enc' = [enc EXCEPT !.pc = "decoded", !.out = decode(vocab, enc.ids)]
    /\ UNCHANGED <<merges, pattern, special_tokens, vocab, disk, result, last, mc>>

\* the caller drops what it got
Return ==
    /\ enc.pc \in {"return", "decoded"}
    /\ enc' = Idle
    /\ UNCHANGED <<merges, pattern, special_tokens, vocab, disk, result, last, mc>>

Next ==
    \/ \E text \in Texts, vocab_size \in VocabSizes : Train(text, vocab_size)
    \/ Save
    \/ Load
    \/ Reload
    \/ Resume
    \/ \E text \in Texts : EncodeCall(text)
    \/ EncodeLoop
    \/ Decode
    \/ Return

Spec == Init /\ [][Next]_vars

\* the runs that train, load, encode and decode and never call save
NextCoder ==
    \/ \E text \in Texts, vocab_size \in VocabSizes : Train(text, vocab_size)
    \/ Load
    \/ Resume
    \/ \E text \in Texts : EncodeCall(text)
    \/ EncodeLoop
    \/ Decode
    \/ Return

SpecCoder == Init /\ [][NextCoder]_vars

\* a call of encode that has started runs on: the program is sequential
FairCoder == SpecCoder /\ WF_vars(EncodeLoop)

(***************************************************************************)
(* merge called on its own: the arguments are drawn first, then the call   *)
(* is made.                                                                *)
(***************************************************************************)
MergeArgs ==
    [pc : {"call"}, ids : MergeSeqs, pair : (1..MaxVal) \X (1..MaxVal), idx : {1, TOKENS},
     out : {<<>>}]

InitMerge ==
    /\ merges = <<>>
    /\ pattern = <<>>
    /\ special_tokens = <<>>
    /\ vocab = build_vocab(<<>>, <<>>).vocab
    /\ disk = [exists |-> FALSE, content |-> <<>>]
    /\ result = NoCall
    /\ last = Fresh
    /\ enc = Idle
    /\ mc \in MergeArgs

MergeCall ==
    /\ mc.pc = "call"
    /\ mc' = [mc EXCEPT !.pc = "done", !.out = merge(mc.ids, mc.pair, mc.idx)]
    /\ UNCHANGED <<merges, pattern, special_tokens, vocab, disk, result, last, enc>>

SpecMerge == InitMerge /\ [][MergeCall]_vars

(***************************************************************************)
(* Properties.                                                             *)
(***************************************************************************)
Returned == enc.pc \in {"return", "decoded"}

Trained == result.op = "train" /\ result.status = "ok"

\* C1: when the tokenizer was last assigned by a train that returned, for
\* every text decode(encode(text)) is the text, and the vocabulary byte
\* strings of encode(text) concatenate to the UTF-8 bytes of the text.
C1_RoundTrip ==
    (last.op = "train" /\ enc.pc = "decoded") =>
        /\ ~enc.out.err
        /\ enc.out.text = enc.text
        /\ VocabBytes(vocab, enc.ids) = Utf8Encode(enc.text)

\* a text of one and of two bytes per character, encoded with a merge applied
C1_Witness ==
    /\ last.op = "train"
    /\ enc.pc = "decoded"
    /\ enc.text = <<233, 97>>
    /\ enc.ids = <<TOKENS, 97>>
    /\ enc.out.text = enc.text

\* the loop of train ran out of pairs before it made the merges asked for
EarlyStop(r, vocab_size) ==
    vocab_size >= TOKENS /\ Len(r.ids) <= 1 /\ Len(r.merges) < vocab_size - TOKENS

\* C2: a train called with vocab_size >= 256 whose working sequence gets to
\* length <= 1 before vocab_size - 256 merges were made ends without an
\* error and installs the merges found so far.
C2_EarlyStop ==
    [][\A text \in Texts, vocab_size \in VocabSizes :
           (Train(text, vocab_size) /\ EarlyStop(train(text, vocab_size), vocab_size))
               => (result'.status = "ok" /\ merges' = train(text, vocab_size).merges)]_vars

\* C3: a load of the model file that save wrote from the present state ends
\* without an error and leaves merges (the rules, their order and ids),
\* special_tokens, pattern and vocab as they were.
C3_Persistence ==
    [][(Reload /\ disk.content = ModelFile(merges, pattern, special_tokens))
           => (result'.status = "ok" /\ UNCHANGED tok)]_vars

\* C4: after a train or a load that returned, vocab is what _build_vocab
\* makes of the merges and the special tokens, and after a train the pattern
\* and the special tokens are empty.
C4_Wholesale ==
    (result.op \in {"train", "load"} /\ result.status = "ok") =>
        /\ vocab = build_vocab(merges, special_tokens).vocab
        /\ result.op = "train" => (pattern = <<>> /\ special_tokens = <<>>)

\* C5: a call of train or load that ends in an error leaves merges, pattern,
\* special_tokens and vocab as they were before the call.
C5_Atomic ==
    [][(result.op = "none" /\ result'.op # "none" /\ result'.status # "ok")
           => UNCHANGED tok]_vars

\* C6: the ids encode returns hold no two adjacent ids that are the pair of
\* a merge rule.
C6_FixedPoint ==
    Returned =>
        \A n \in 1..(Len(enc.ids) - 1) : ~DictHas(merges, <<enc.ids[n], enc.ids[n + 1]>>)

\* encode merged, and what it returns still holds a pair
C6_Witness ==
    /\ enc.pc = "return"
    /\ enc.steps >= 1
    /\ Len(enc.ids) >= 2
    /\ Len(merges) = MaxMerges

C8_Monotone ==
    (Trained /\ result.vocab_size >= TOKENS) =>
        /\ Len(merges) = result.passes
        /\ \A m, n \in 1..Len(merges) : m # n => merges[m][1] # merges[n][1]
        /\ \A n \in 1..Len(merges) : merges[n][2] = TOKENS + n - 1
        /\ Cardinality(DOMAIN vocab) = TOKENS + result.passes
        /\ DOMAIN vocab = 0..(TOKENS + result.passes - 1)
        /\ result.passes <= result.vocab_size - TOKENS

\* a train that made MaxMerges merges
C8_Witness == Trained /\ Len(merges) = MaxMerges /\ result.vocab_size = TOKENS + MaxMerges

\* C9: every pass of the encode loop either ends the loop with the ids as
\* they are or makes the ids strictly shorter, and a call of encode that
\* entered its loop returns.
C9_Terminates ==
    /\ [][enc.pc = "loop" =>
              \/ enc'.pc = "return" /\ enc'.ids = enc.ids
              \/ enc'.pc = "loop" /\ Len(enc'.ids) < Len(enc.ids)]_vars
    /\ (enc.pc = "loop") ~> (enc.pc = "return")

\* the loop body ran twice and the call returned
C9_Witness == enc.pc = "return" /\ enc.steps >= 2

\* the places where the pair occurs in ids
Occurs(ids, pair) ==
    {i \in 1..(Len(ids) - 1) : ids[i] = pair[1] /\ ids[i + 1] = pair[2]}

\* how many places in a row, right before place i, hold an occurrence
RunBefore(ids, pair, i) ==
    CHOOSE j \in 0..(i - 1) :
        /\ \A m \in 1..j : (i - m) \in Occurs(ids, pair)
        /\ (i - j - 1) \notin Occurs(ids, pair)

\* the occurrences a scan from the left takes: every second one of a run
Taken(ids, pair) ==
    {i \in Occurs(ids, pair) : RunBefore(ids, pair, i) % 2 = 0}

\* the places that start an element of the result
Kept(ids, pair) == {i \in 1..Len(ids) : (i - 1) \notin Taken(ids, pair)}

Replaced(ids, pair, idx) ==
    [j \in 1..Cardinality(Kept(ids, pair)) |->
        LET i == CHOOSE i \in Kept(ids, pair) :
                     Cardinality({m \in Kept(ids, pair) : m < i}) = j - 1
        IN  IF i \in Taken(ids, pair) THEN idx ELSE ids[i]]

\* C10: merge(ids, pair, idx) replaces the occurrences of the pair taken
\* from left to right without overlap by idx and keeps every other element
\* in order, so its length is that of ids less the number of these
\* occurrences.
C10_MergeCount ==
    mc.pc = "done" =>
        /\ mc.out = Replaced(mc.ids, mc.pair, mc.idx)
        /\ Len(mc.out) = Len(mc.ids) - Cardinality(Taken(mc.ids, mc.pair))

\* [1, 1, 1] with the pair (1, 1): one occurrence is taken, not two
C10_Witness ==
    /\ mc.pc = "done"
    /\ mc.ids = <<1, 1, 1>>
    /\ mc.pair = <<1, 1>>
    /\ mc.out = <<mc.idx, 1>>

====
